---- MODULE Spec2Model ----
(***************************************************************************)
(* Model of netlify/functions/weather.js: the handler that proxies a       *)
(* weather query to WeatherAPI with a server-side API key.                 *)
(*                                                                         *)
(* Strings are sequences of symbols; a symbol is one character, or a fixed *)
(* phrase of the source kept whole ("Method not allowed. Use GET.").       *)
(* JavaScript values and JSON texts are tagged records of one shape:       *)
(*   t  the type tag, n  the number, s  the string, o  the members of an   *)
(*   object in property order, each [k |-> key, v |-> value].              *)
(***************************************************************************)
EXTENDS Integers, Sequences, FiniteSets, TLC

VARIABLES
    pc,        \* "idle" | "awaitFetch" | "awaitJson" | "returned"
    event,     \* the invocation's event: httpMethod, queryStringParameters
    env,       \* process.env.WEATHER_API_KEY as read by the invocation
    fetched,   \* the URLs passed to fetch(), in order
    response,  \* what fetch() resolved to: ok and the body text
    upstream,  \* how the upstream call ended, and the error it raised
    log,       \* the messages written by console.error, in order
    results    \* the responses returned by the handler, in order

vars == <<pc, event, env, fetched, response, upstream, log, results>>

\* ------------------------------------------------------------------ bounds

MaxCityLen == 2

\* ------------------------------------------------------------------ values

V(t, n, s, o) == [t |-> t, n |-> n, s |-> s, o |-> o]

Undefined == V("undefined", 0, <<>>, <<>>)
JNull == V("null", 0, <<>>, <<>>)
JNum(k) == V("number", k, <<>>, <<>>)
Infinity == V("infinity", 0, <<>>, <<>>)
JStr(s) == V("string", 0, s, <<>>)
JObj(o) == V("object", 0, <<>>, o)
\* a member inherited from Object.prototype (a function or the prototype itself)
Builtin(name) == V("builtin", 0, name, <<>>)
\* a JSON number literal beyond the range of a double, such as 1e999
BigLiteral == V("bigliteral", 0, <<>>, <<>>)
\* the empty string as a response body
EmptyText == V("emptytext", 0, <<>>, <<>>)

Member(k, v) == [k |-> k, v |-> v]

IsNullish(v) == v.t \in {"undefined", "null"}

\* ------------------------------------------------------------------ strings

WhiteSpace == {" ", "\t"}

RECURSIVE TrimStart(_)
TrimStart(s) ==
    IF s # <<>> /\ Head(s) \in WhiteSpace THEN TrimStart(Tail(s)) ELSE s

RECURSIVE TrimEnd(_)
TrimEnd(s) ==
    IF s # <<>> /\ s[Len(s)] \in WhiteSpace
    THEN TrimEnd(SubSeq(s, 1, Len(s) - 1))
    ELSE s

\* String.prototype.trim
Trim(s) == TrimEnd(TrimStart(s))

\* s contains k as a substring
Contains(s, k) ==
    \E i \in 0..(Len(s) - Len(k)) : SubSeq(s, i + 1, i + Len(k)) = k

EncodeChar(c) ==
    CASE c = " " -> <<"%", "2", "0">>
      [] c = "\t" -> <<"%", "0", "9">>
      [] OTHER -> <<c>>

RECURSIVE encodeURIComponent(_)
encodeURIComponent(s) ==
    IF s = <<>> THEN <<>>
    ELSE EncodeChar(Head(s)) \o encodeURIComponent(Tail(s))

Digit(d) ==
    CASE d = 0 -> "0" [] d = 1 -> "1" [] d = 2 -> "2" [] d = 3 -> "3"
      [] d = 4 -> "4" [] d = 5 -> "5" [] d = 6 -> "6" [] d = 7 -> "7"
      [] d = 8 -> "8" [] d = 9 -> "9"

\* Number::toString of a natural number
RECURSIVE NumberToString(_)
NumberToString(k) ==
    IF k < 10 THEN <<Digit(k)>>
    ELSE NumberToString(k \div 10) \o <<Digit(k % 10)>>

\* ------------------------------------------------------------------ objects

HasOwn(o, k) == \E i \in 1..Len(o) : o[i].k = k

GetOwn(o, k) == o[CHOOSE i \in 1..Len(o) : o[i].k = k].v

\* the members every object inherits from Object.prototype
ObjectPrototypeKeys ==
    { <<"constructor">>, <<"toString">>, <<"valueOf">>, <<"hasOwnProperty">>,
      <<"isPrototypeOf">>, <<"propertyIsEnumerable">>, <<"toLocaleString">>,
      <<"__proto__">> }

\* v[k] for a non-nullish v: an own member, else an inherited one, else undefined
Get(v, k) ==
    IF v.t = "object" /\ HasOwn(v.o, k) THEN GetOwn(v.o, k)
    ELSE IF k \in ObjectPrototypeKeys THEN Builtin(k)
    ELSE Undefined

\* v?.k
OptGet(v, k) == IF IsNullish(v) THEN Undefined ELSE Get(v, k)

\* a ?? b
Coalesce(a, b) == IF IsNullish(a) THEN b ELSE a

\* !v
Not(v) ==
    \/ v.t \in {"undefined", "null"}
    \/ v.t = "string" /\ v.s = <<>>
    \/ v.t = "number" /\ v.n = 0

\* ToString throws a TypeError for an object whose own toString member
\* shadows Object.prototype.toString: a member parsed from JSON is never
\* callable, and Object.prototype.valueOf returns the object itself.
ToStringThrows(v) == v.t = "object" /\ HasOwn(v.o, <<"toString">>)

ToPrimitiveMessage == <<"Cannot convert object to primitive value">>

\* ToString (the language's), used by template literals and by property keys
JSToString(v) ==
    CASE v.t = "string" -> v.s
      [] v.t = "number" -> NumberToString(v.n)
      [] v.t = "infinity" -> <<"Infinity">>
      [] v.t = "null" -> <<"null">>
      [] v.t = "undefined" -> <<"undefined">>
      [] v.t = "object" -> <<"[object Object]">>
      [] OTHER -> <<"function () { [native code] }">>

\* ------------------------------------------------------------------ JSON

\* obj[k] = v on an object under construction: a repeated key keeps its
\* place and takes the later value
Define(o, k, v) ==
    IF HasOwn(o, k)
    THEN [i \in 1..Len(o) |-> IF o[i].k = k THEN Member(k, v) ELSE o[i]]
    ELSE Append(o, Member(k, v))

RECURSIVE Parse(_)
RECURSIVE ParseMembers(_, _)

\* JSON.parse of a well-formed text: a literal beyond the double range is
\* Infinity, an object takes its members in order
Parse(x) ==
    CASE x.t = "bigliteral" -> Infinity
      [] x.t = "object" -> JObj(ParseMembers(<<>>, x.o))
      [] OTHER -> x

ParseMembers(acc, ms) ==
    IF ms = <<>> THEN acc
    ELSE ParseMembers(Define(acc, Head(ms).k, Parse(Head(ms).v)), Tail(ms))

RECURSIVE Stringify(_)
RECURSIVE StringifyMembers(_)

\* JSON.stringify: a non-finite number is written null, a member whose
\* value is undefined or a function is left out
Stringify(v) ==
    CASE v.t = "infinity" -> JNull
      [] v.t = "object" -> JObj(StringifyMembers(v.o))
      [] OTHER -> v

StringifyMembers(ms) ==
    IF ms = <<>> THEN <<>>
    ELSE IF Head(ms).v.t \in {"undefined", "builtin"}
         THEN StringifyMembers(Tail(ms))
         ELSE <<Member(Head(ms).k, Stringify(Head(ms).v))>>
              \o StringifyMembers(Tail(ms))

RECURSIVE TextStrings(_)
\* the strings written in a text: its string values and its member names
TextStrings(x) ==
    CASE x.t = "string" -> {x.s}
      [] x.t = "object" ->
            UNION { {x.o[i].k} \cup TextStrings(x.o[i].v) : i \in 1..Len(x.o) }
      [] OTHER -> {}

\* ------------------------------------------------------------------ handler

headers ==
    ("Access-Control-Allow-Origin" :> "*")
    @@ ("Access-Control-Allow-Headers" :> "Content-Type")
    @@ ("Content-Type" :> "application/json")

Response(statusCode, body) ==
    [statusCode |-> statusCode, headers |-> headers, body |-> body]

IsPreflight(method) == method = JStr(<<"OPTIONS">>)

PreflightResponseOk == Response(JNum(200), EmptyText)

PreflightResponse == Response(JNum(204), EmptyText)

\* a comparison that ignores case
IsGetAnyCase(method) == method \in {JStr(<<"GET">>), JStr(<<"get">>)}

IsGet(method) == method = JStr(<<"GET">>)

MethodNotAllowedResponse ==
    Response(JNum(405),
        Stringify(JObj(<<
            Member(<<"error">>, JStr(<<"Method not allowed. Use GET.">>)) >>)))

\* const { city } = event.queryStringParameters || {}
City(qsp) == Get(IF Not(qsp) THEN JObj(<<>>) ELSE qsp, <<"city">>)

\* the check without the trim
CityMissingUntrimmed(city) == Not(city)

\* !city || city.trim() === ""
CityMissing(city) == Not(city) \/ Trim(city.s) = <<>>

MissingCityResponse ==
    Response(JNum(400),
        Stringify(JObj(<<
            Member(<<"error">>, JStr(<<"Missing required query parameter: city">>)),
            Member(<<"example">>,
                   JStr(<<"/.netlify/functions/weather?city=Boston">>)) >>)))

\* a comparison with null alone
KeyMissingNullOnly(key) == key = JNull

\* !API_KEY
KeyMissing(key) == Not(key)

KeyMissingLog == <<"WEATHER_API_KEY environment variable is not set.">>

KeyMissingResponse ==
    Response(JNum(500),
        Stringify(JObj(<<
            Member(<<"error">>,
                   JStr(<<"Server configuration error: API key not set.">>)) >>)))

weatherUrl(key, city) ==
    <<"https://api.weatherapi.com/v1/forecast.json">>
        \o <<"?key=">> \o JSToString(key)
        \o <<"&q=">> \o encodeURIComponent(Trim(city.s))
        \o <<"&days=7">>
        \o <<"&aqi=yes">>

statusMap ==
    JObj(<< Member(NumberToString(1006), JNum(404)),
            Member(NumberToString(2006), JNum(401)),
            Member(NumberToString(2007), JNum(403)),
            Member(NumberToString(2008), JNum(403)),
            Member(NumberToString(9000), JNum(400)),
            Member(NumberToString(9001), JNum(400)) >>)

\* data?.error?.code ?? "unknown"
errorCode(data) ==
    Coalesce(OptGet(OptGet(data, <<"error">>), <<"code">>), JStr(<<"unknown">>))

\* data?.error?.message ?? "Unknown error from WeatherAPI."
errorMessage(data) ==
    Coalesce(OptGet(OptGet(data, <<"error">>), <<"message">>),
             JStr(<<"Unknown error from WeatherAPI.">>))

\* statusMap[errorCode] ?? 502
statusCode(code) == Coalesce(Get(statusMap, JSToString(code)), JNum(502))

\* the property key and the template literal both convert to a string
ErrorBranchThrows(data) ==
    ToStringThrows(errorCode(data)) \/ ToStringThrows(errorMessage(data))

UpstreamErrorLog(data) ==
    <<"WeatherAPI error [">> \o JSToString(errorCode(data))
        \o <<"]: ">> \o JSToString(errorMessage(data))

UpstreamErrorResponse(data) ==
    Response(statusCode(errorCode(data)),
        Stringify(JObj(<< Member(<<"error">>, errorMessage(data)),
                          Member(<<"code">>, errorCode(data)) >>)))

SuccessResponse(data) == Response(JNum(200), Stringify(data))

CatchLog(message) == <<"Unexpected error fetching weather data:", " ">> \o message

CatchResponseNoDetail(message) ==
    Response(JNum(500),
        Stringify(JObj(<<
            Member(<<"error">>,
                   JStr(<<"Failed to fetch weather data. Please try again later.">>)) >>)))

CatchResponse(message) ==
    Response(JNum(500),
        Stringify(JObj(<<
            Member(<<"error">>,
                   JStr(<<"Failed to fetch weather data. Please try again later.">>)),
            Member(<<"detail">>, JStr(message)) >>)))

\* ------------------------------------------------------------------ inputs

Methods ==
    { JStr(<<"OPTIONS">>), JStr(<<"GET">>), JStr(<<"POST">>), JStr(<<"get">>),
      Undefined }

CityChars == WhiteSpace \cup {"B"}

RECURSIVE StringsUpTo(_, _)
StringsUpTo(chars, n) ==
    IF n = 0 THEN {<<>>}
    ELSE LET shorter == StringsUpTo(chars, n - 1)
         IN shorter \cup {Append(s, c) : s \in shorter, c \in chars}

\* event.queryStringParameters: null without a query string, else a map
QueryParameters ==
    {JNull, JObj(<<>>), JObj(<<Member(<<"units">>, JStr(<<"m">>))>>)}
    \cup {JObj(<<Member(<<"city">>, JStr(c))>>) : c \in StringsUpTo(CityChars, MaxCityLen)}

\* process.env.WEATHER_API_KEY: unset, empty, or a key
Keys == {Undefined, JStr(<<>>), JStr(<<"k", "7">>), JStr(<<"s", "3", "c">>)}

\* what the upstream can put in error.code and error.message; Undefined is
\* a member left out
UpstreamCodes ==
    {Undefined, JNull, JNum(1006), JNum(2006), JNum(2007), JNum(2008),
     JNum(9000), JNum(9001), JNum(9999), JStr(NumberToString(1006)),
     JStr(<<"constructor">>), JObj(<<>>),
     JObj(<<Member(<<"toString">>, JNum(1))>>)}

UpstreamMessages(url) ==
    {Undefined, JNull, JStr(<<"No matching location found.">>),
     JStr(<<"API key is invalid. Request: ">> \o url),
     BigLiteral,
     JObj(<<Member(<<"toString">>, JNum(1))>>)}

Omit(ms) == SelectSeq(ms, LAMBDA m : m.v # Undefined)

UpstreamErrorTexts(url) ==
    { JObj(<<Member(<<"error">>,
                    JObj(Omit(<<Member(<<"code">>, c), Member(<<"message">>, m)>>)))>>) :
        c \in UpstreamCodes, m \in UpstreamMessages(url) }

UpstreamPayloadTexts(url) ==
    { JNull, JStr(<<"Bad Gateway">>), JObj(<<>>),
      JObj(<<Member(<<"error">>, JNull)>>),
      JObj(<<Member(<<"error">>, JStr(<<"quota">>))>>),
      JObj(<<Member(<<"location">>, JObj(<<Member(<<"name">>, JStr(<<"Boston">>))>>)),
             Member(<<"current">>, JObj(<<Member(<<"temp_c">>, JNum(21))>>))>>),
      JObj(<<Member(<<"location">>, JObj(<<Member(<<"name">>, JStr(<<"Boston">>))>>)),
             Member(<<"current">>, JObj(<<Member(<<"vis_km">>, BigLiteral)>>))>>),
      JObj(<<Member(<<"current">>, JNum(1)), Member(<<"astro">>, JNum(2)),
             Member(<<"current">>, JNum(3))>>),
      JObj(<<Member(<<"request">>, JStr(url))>>) }

\* the JSON texts an upstream body can hold
UpstreamTexts(url) == UpstreamErrorTexts(url) \cup UpstreamPayloadTexts(url)

\* the message of the error a failed fetch() rejects with: the runtime's
\* own ("fetch failed"), or one that quotes the request ("request to <url>
\* failed, reason: ...")
FetchErrorMessages(url) ==
    { <<"fetch failed">>,
      <<"request to ">> \o url \o <<" failed, reason: getaddrinfo ENOTFOUND">> }

\* the message of the SyntaxError response.json() rejects with; it can
\* quote the body, and the body can quote the request
ParseErrorMessages(url) ==
    { <<"Unexpected token < in JSON at position 0">>,
      <<"Unexpected token, \"">> \o url \o <<"\" is not valid JSON">> }

NoResponse == [ok |-> FALSE, wellformed |-> FALSE, text |-> JNull]

\* ------------------------------------------------------------------ actions

Init ==
    /\ pc = "idle"
    /\ event = [httpMethod |-> Undefined, queryStringParameters |-> JNull]
    /\ env = [WEATHER_API_KEY |-> Undefined]
    /\ fetched = <<>>
    /\ response = NoResponse
    /\ upstream = [kind |-> "none", message |-> <<>>]
    /\ log = <<>>
    /\ results = <<>>

Return(resp) ==
    /\ results' = Append(results, resp)
    /\ pc' = "returned"

\* a catch block that tries the request once more
CatchRetry(message) ==
    /\ log' = Append(log, CatchLog(message))
    /\ Return(CatchResponse(message))
    /\ fetched' = Append(fetched, fetched[Len(fetched)])

\* the catch block
Catch(message) ==
    /\ log' = Append(log, CatchLog(message))
    /\ Return(CatchResponse(message))
    /\ UNCHANGED fetched

\* the handler from its entry to its first await or its return
Invoke(method, qsp, key) ==
    /\ pc = "idle"
    /\ event' = [httpMethod |-> method, queryStringParameters |-> qsp]
    /\ env' = [WEATHER_API_KEY |-> key]
    /\ UNCHANGED <<response, upstream>>
    /\ IF IsPreflight(method)
       THEN Return(PreflightResponse) /\ UNCHANGED <<fetched, log>>
       ELSE IF ~IsGet(method)
       THEN Return(MethodNotAllowedResponse) /\ UNCHANGED <<fetched, log>>
       ELSE IF CityMissing(City(qsp))
       THEN Return(MissingCityResponse) /\ UNCHANGED <<fetched, log>>
       ELSE IF KeyMissing(key)
       THEN /\ log' = Append(log, KeyMissingLog)
            /\ Return(KeyMissingResponse)
            /\ UNCHANGED fetched
       ELSE /\ fetched' = Append(fetched, weatherUrl(key, City(qsp)))
            /\ pc' = "awaitFetch"
            /\ UNCHANGED <<log, results>>

\* fetch() resolves: the upstream answered; response.json() is awaited next
FetchResolve(ok, wellformed, text) ==
    /\ pc = "awaitFetch"
    /\ response' = [ok |-> ok, wellformed |-> wellformed, text |-> text]
    /\ upstream' = [kind |-> "answered", message |-> <<>>]
    /\ pc' = "awaitJson"
    /\ UNCHANGED <<event, env, fetched, log, results>>

\* fetch() rejects: the catch block runs
FetchReject(message) ==
    /\ pc = "awaitFetch"
    /\ upstream' = [kind |-> "transport", message |-> message]
    /\ Catch(message)
    /\ UNCHANGED <<event, env, response>>

\* response.json() rejects: the catch block runs
JsonReject(message) ==
    /\ pc = "awaitJson"
    /\ ~response.wellformed
    /\ upstream' = [kind |-> "parse", message |-> message]
    /\ Catch(message)
    /\ UNCHANGED <<event, env, response>>

\* response.json() resolves: the rest of the try block runs
JsonResolve ==
    /\ pc = "awaitJson"
    /\ response.wellformed
    /\ LET data == Parse(response.text)
       IN IF ~response.ok
          THEN IF ErrorBranchThrows(data)
               THEN Catch(ToPrimitiveMessage)
               ELSE /\ log' = Append(log, UpstreamErrorLog(data))
                    /\ Return(UpstreamErrorResponse(data))
                    /\ UNCHANGED fetched
          ELSE Return(SuccessResponse(data)) /\ UNCHANGED <<fetched, log>>
    /\ UNCHANGED <<event, env, response, upstream>>

\* the request the upstream is answering
Request == fetched[Len(fetched)]

Next ==
    \/ \E method \in Methods, qsp \in QueryParameters, key \in Keys :
          Invoke(method, qsp, key)
    \/ /\ pc = "awaitFetch"
       /\ \E ok \in BOOLEAN, text \in UpstreamTexts(Request) :
             FetchResolve(ok, TRUE, text)
    \/ \E ok \in BOOLEAN : FetchResolve(ok, FALSE, JNull)
    \/ /\ pc = "awaitFetch"
       /\ \E message \in FetchErrorMessages(Request) : FetchReject(message)
    \/ /\ pc = "awaitJson"
       /\ \E message \in ParseErrorMessages(Request) : JsonReject(message)
    \/ JsonResolve

Spec == Init /\ [][Next]_vars

\* ------------------------------------------------------------------ claims

Returned == pc = "returned"

Invoked == pc # "idle"

CorsHeaders(h) ==
    /\ DOMAIN h = {"Access-Control-Allow-Origin", "Access-Control-Allow-Headers",
                   "Content-Type"}
    /\ h["Access-Control-Allow-Origin"] = "*"
    /\ h["Access-Control-Allow-Headers"] = "Content-Type"
    /\ h["Content-Type"] = "application/json"

\* the city parameter is absent, empty or made of whitespace only
BlankCity(qsp) ==
    \/ qsp.t # "object"
    \/ ~HasOwn(qsp.o, <<"city">>)
    \/ \A i \in 1..Len(GetOwn(qsp.o, <<"city">>).s) :
          GetOwn(qsp.o, <<"city">>).s[i] \in WhiteSpace

KeySet == env.WEATHER_API_KEY.t = "string" /\ env.WEATHER_API_KEY.s # <<>>

GetRequest == event.httpMethod = JStr(<<"GET">>)

\* the text {name: string}, {name1: string1, name2: string2}
Text1(k, s) == JObj(<<Member(<<k>>, JStr(<<s>>))>>)

\* C1: when WEATHER_API_KEY is set to K, K appears in no returned body and
\* in no logged message, whatever the upstream outcome.
C1_KeyNeverExposed ==
    KeySet =>
        /\ \A i \in 1..Len(results) :
              \A s \in TextStrings(results[i].body) :
                 ~Contains(s, env.WEATHER_API_KEY.s)
        /\ \A i \in 1..Len(log) : ~Contains(log[i], env.WEATHER_API_KEY.s)

\* C2: a GET whose city is absent, empty or whitespace-only returns 400
\* with error and example in the body, with or without the API key, and
\* makes no upstream call.
C2_BlankCityIs400 ==
    (Invoked /\ GetRequest /\ BlankCity(event.queryStringParameters)) =>
        /\ Returned
        /\ Len(results) = 1
        /\ results[1].statusCode = JNum(400)
        /\ results[1].body.t = "object"
        /\ HasOwn(results[1].body.o, <<"error">>)
        /\ HasOwn(results[1].body.o, <<"example">>)
        /\ fetched = <<>>

C2_Witness ==
    /\ Returned
    /\ GetRequest
    /\ KeySet
    /\ event.queryStringParameters.t = "object"
    /\ HasOwn(event.queryStringParameters.o, <<"city">>)
    /\ Len(GetOwn(event.queryStringParameters.o, <<"city">>).s) = 2
    /\ BlankCity(event.queryStringParameters)
    /\ results[1].statusCode = JNum(400)

UpstreamErrored ==
    /\ Returned
    /\ upstream.kind = "answered"
    /\ response.wellformed
    /\ ~response.ok

\* the table of the claim, on the code as a number
ClaimedStatus(code) ==
    CASE code = JNum(1006) -> JNum(404)
      [] code = JNum(2006) -> JNum(401)
      [] code = JNum(2007) -> JNum(403)
      [] code = JNum(2008) -> JNum(403)
      [] code = JNum(9000) -> JNum(400)
      [] code = JNum(9001) -> JNum(400)
      [] OTHER -> JNum(502)

\* C3: a non-success upstream answer with a JSON body returns {error:
\* message, code} with the defaults, and the status of the table: 404, 401,
\* 403, 403, 400, 400 for the six codes and 502 for every other or missing
\* code, so always one of 400, 401, 403, 404, 502.
C3_UpstreamErrorStatus ==
    UpstreamErrored =>
        LET error == OptGet(Parse(response.text), <<"error">>)
            code == Coalesce(OptGet(error, <<"code">>), JStr(<<"unknown">>))
            message == Coalesce(OptGet(error, <<"message">>),
                                JStr(<<"Unknown error from WeatherAPI.">>))
        IN /\ Len(results) = 1
           /\ results[1].statusCode \in
                 {JNum(400), JNum(401), JNum(403), JNum(404), JNum(502)}
           /\ code.t = "number" => results[1].statusCode = ClaimedStatus(code)
           /\ code.t \notin {"number", "string"} =>
                 results[1].statusCode = JNum(502)
           /\ Parse(results[1].body) =
                 Parse(Stringify(JObj(<<Member(<<"error">>, message),
                                        Member(<<"code">>, code)>>)))

UpstreamSucceeded ==
    /\ Returned
    /\ upstream.kind = "answered"
    /\ response.wellformed
    /\ response.ok

\* C4: a success answer with a JSON body returns 200 and a body that
\* decodes to the upstream document, nothing added, removed or reshaped.
C4_PassThrough ==
    UpstreamSucceeded =>
        /\ Len(results) = 1
        /\ results[1].statusCode = JNum(200)
        /\ Parse(results[1].body) = Parse(response.text)

\* C5: a transport failure, or a body that does not parse (whatever the
\* upstream status), returns 500 with the fixed error and the underlying
\* message as detail.
C5_FailureIs500 ==
    (Returned /\ upstream.kind \in {"transport", "parse"}) =>
        /\ Len(results) = 1
        /\ results[1].statusCode = JNum(500)
        /\ results[1].body =
              JObj(<<Member(<<"error">>,
                            JStr(<<"Failed to fetch weather data. Please try again later.">>)),
                     Member(<<"detail">>, JStr(upstream.message))>>)

C5_Witness ==
    /\ Returned
    /\ upstream.kind = "parse"
    /\ response.ok
    /\ upstream.message # <<>>
    /\ results[1].statusCode = JNum(500)

\* C6: a GET with a non-blank city and WEATHER_API_KEY unset returns 500
\* with the configuration error and makes no upstream call.
C6_KeyUnsetIs500 ==
    (Invoked /\ GetRequest /\ ~BlankCity(event.queryStringParameters)
        /\ env.WEATHER_API_KEY = Undefined) =>
        /\ Returned
        /\ Len(results) = 1
        /\ results[1].statusCode = JNum(500)
        /\ results[1].body =
              Text1("error", "Server configuration error: API key not set.")
        /\ fetched = <<>>

C6_Witness ==
    /\ Returned
    /\ GetRequest
    /\ ~BlankCity(event.queryStringParameters)
    /\ env.WEATHER_API_KEY = Undefined
    /\ results[1].statusCode = JNum(500)
    /\ log # <<>>

\* C7: an OPTIONS request, whatever its parameters and environment,
\* returns 204 with an empty body and the CORS headers, and makes no
\* upstream call.
C7_PreflightIs204 ==
    (Invoked /\ event.httpMethod = JStr(<<"OPTIONS">>)) =>
        /\ Returned
        /\ Len(results) = 1
        /\ results[1].statusCode = JNum(204)
        /\ results[1].body = EmptyText
        /\ CorsHeaders(results[1].headers)
        /\ fetched = <<>>

C7_Witness ==
    /\ Returned
    /\ event.httpMethod = JStr(<<"OPTIONS">>)
    /\ KeySet
    /\ ~BlankCity(event.queryStringParameters)
    /\ results[1].statusCode = JNum(204)

\* C8: a request whose method is neither GET nor OPTIONS, a missing method
\* included, returns 405 with the fixed error and makes no upstream call.
C8_OtherMethodIs405 ==
    (Invoked /\ event.httpMethod \notin {JStr(<<"GET">>), JStr(<<"OPTIONS">>)}) =>
        /\ Returned
        /\ Len(results) = 1
        /\ results[1].statusCode = JNum(405)
        /\ results[1].body = Text1("error", "Method not allowed. Use GET.")
        /\ fetched = <<>>

C8_Witness ==
    /\ Returned
    /\ event.httpMethod = JStr(<<"get">>)
    /\ KeySet
    /\ ~BlankCity(event.queryStringParameters)
    /\ results[1].statusCode = JNum(405)

\* C9: every invocation that ends returns exactly one well-formed response:
\* a numeric status, a body text and the three CORS headers.
C9_WellFormedResponse ==
    /\ Len(results) <= 1
    /\ Returned =>
          /\ Len(results) = 1
          /\ results[1].statusCode.t = "number"
          /\ CorsHeaders(results[1].headers)
          /\ results[1].body.t \in
                {"emptytext", "null", "number", "string", "object"}

\* C10: an invocation issues at most one upstream request, only for a GET
\* with a non-blank city and the API key set, and none after a failure.
C10_OneRequestAfterGates ==
    /\ Len(fetched) <= 1
    /\ fetched # <<>> =>
          /\ GetRequest
          /\ ~BlankCity(event.queryStringParameters)
          /\ KeySet
    /\ pc = "idle" => fetched = <<>>

C10_Witness ==
    /\ Returned
    /\ upstream.kind = "transport"
    /\ Len(fetched) = 1
    /\ results[1].statusCode = JNum(500)

====
